---- MODULE Spec2Model ----
(***************************************************************************)
(* A model of client/dali_grpc_client.py: the command-line client that     *)
(* loads images, stacks them into one padded tensor, sends them in batches *)
(* to an inference server and checks the server's statistics.              *)
(*                                                                         *)
(* Spec       the whole run of main(), one step per blocking call.         *)
(* SpecLoad   load_images applied to bounded filesystems.                  *)
(* SpecArr    array_from_list applied to bounded lists of byte buffers.    *)
(* SpecBatch  the batching iterator as main() calls it.                    *)
(***************************************************************************)
EXTENDS Integers, Sequences, FiniteSets, TLC

VARIABLES
    pc,          \* position of main(): parse, connect, load, loop, infer_wait, stats_wait, exited; idle outside Spec
    argv,        \* the command line: each option is <<>> (not given) or <<value>>
    fs,          \* the filesystem: the node the image path names, the working directory, the images saved into it
    FLAGS,       \* the namespace parse_args returned
    image_data,  \* the stacked tensor (a sequence of equal-length rows)
    batches,     \* what the batching iterator still has to yield
    events,      \* every filesystem and network call of the run, in order
    out,         \* what main() printed, in order
    exc,         \* the uncaught exception that ended the run, "" when none
    exit_code,   \* the process's exit code, Running until it exits
    call,        \* SpecLoad, SpecArr, SpecBatch: the call under study
    ret          \* SpecLoad, SpecArr, SpecBatch: what it returned

vars == <<pc, argv, fs, FLAGS, image_data, batches, events, out, exc, exit_code, call, ret>>
mainvars == <<pc, argv, fs, FLAGS, image_data, batches, events, out, exc, exit_code>>

(***************************************************************************)
(* Bounds.                                                                 *)
(***************************************************************************)
MaxFileLen == 1       \* SpecLoad: bytes in a file
MaxEntries == 3       \* SpecLoad: entries in a directory
MaxCap == 2           \* SpecLoad: the largest max_images tried
MaxRows == 3          \* SpecArr: buffers in the list
MaxLen == 2           \* SpecArr: bytes in a buffer
MaxImages == 4        \* SpecBatch: images in the dataset
MaxBatch == 3         \* SpecBatch: the largest --batch_size
MaxIter == 3          \* SpecBatch: the largest --n_iter
MainMaxEntries == 2   \* Spec: entries in the image directory
MainMaxBatch == 2     \* Spec: the largest --batch_size
MainMaxIter == 2      \* Spec: the largest --n_iter
MaxStats == 2         \* Spec: the most model entries in a statistics response
MaxSide == 2          \* SpecSave: the largest image width and height
MaxSuffix == 3        \* SpecSave: the largest name_suffix

Bytes == {0, 255}

Min(a, b) == IF a < b THEN a ELSE b
Max(a, b) == IF a > b THEN a ELSE b

(***************************************************************************)
(* Python values.                                                          *)
(***************************************************************************)
\* A path is a non-empty sequence of components; None is the absent path.
None == <<>>
TargetPath == <<0>>
join(dir_path, f) == Append(dir_path, f)

\* A path names nothing (ENOENT), or runs through a regular file (ENOTDIR),
\* or through a directory without permissions (EACCES).
NotDir == [kind |-> "notdir", data |-> <<>>, readable |-> FALSE, entries |-> <<>>]
Denied == [kind |-> "denied", data |-> <<>>, readable |-> FALSE, entries |-> <<>>]
\* A regular file has its bytes and is readable (open succeeds) or not.
Missing == [kind |-> "missing", data |-> <<>>, readable |-> FALSE, entries |-> <<>>]
File(bytes, readable) == [kind |-> "file", data |-> bytes, readable |-> readable, entries |-> <<>>]
\* A directory entry: a regular file, or a subdirectory.
FileEntry(bytes, readable) == [kind |-> "file", data |-> bytes, readable |-> readable]
SubDirEntry == [kind |-> "subdir", data |-> <<>>, readable |-> TRUE]
Dir(entries) == [kind |-> "dir", data |-> <<>>, readable |-> TRUE, entries |-> entries]
\* A directory of mode 000: it can be neither listed nor searched.
LockedDir(entries) == [kind |-> "dir", data |-> <<>>, readable |-> FALSE, entries |-> entries]

SeqsUpTo(S, n) == UNION {[1..k -> S] : k \in 0..n}

\* What a path names: the target itself, or below it the i-th entry of the
\* target directory (os.listdir's order is the order of the entries).  The
\* subdirectories are empty.
Resolve(f, path) ==
    IF path = TargetPath THEN f.target
    ELSE IF Len(path) < 2 \/ SubSeq(path, 1, 1) # TargetPath THEN Missing
    ELSE IF f.target.kind \in {"file", "notdir"} THEN NotDir
    ELSE IF f.target.kind \in {"missing", "denied"} THEN f.target
    ELSE IF ~f.target.readable THEN Denied
    ELSE IF path[2] \notin 1..Len(f.target.entries) THEN Missing
    ELSE LET e == f.target.entries[path[2]] IN
         IF Len(path) = 2
         THEN (IF e.kind = "file" THEN File(e.data, e.readable) ELSE Dir(<<>>))
         ELSE (IF e.kind = "file" THEN NotDir ELSE Missing)

(***************************************************************************)
(* parse_args.                                                             *)
(***************************************************************************)
Given(opt) == opt # <<>>
Opt(opt, default) == IF Given(opt) THEN opt[1] ELSE default

Default_batch_size == 1
Default_n_iter == -1
Default_model_name == "dali_backend"

\* The mutually exclusive group of --img and --img_dir: argparse reports a
\* usage error (exit status 2) when both are given.
NeverConflicts(args) == FALSE
NotAllowedWith(args) == Given(args.img) /\ Given(args.img_dir)

UsageError == 2
\* The exit code is <<>> while the process runs and <<code>> once it has exited.
NotExited == <<>>
Exited(code) == <<code>>
NoFlags == [batch_size |-> 0, n_iter |-> 0, model_name |-> "", preprocess |-> FALSE,
            statistics |-> FALSE, img |-> None, img_dir |-> None]

parse_args(args) ==
    IF NotAllowedWith(args)
    THEN [error |-> TRUE, flags |-> NoFlags]
    ELSE [error |-> FALSE,
          flags |-> [batch_size |-> Opt(args.batch_size, Default_batch_size),
                     n_iter     |-> Opt(args.n_iter, Default_n_iter),
                     model_name |-> Opt(args.model_name, Default_model_name),
                     preprocess |-> args.preprocess,
                     statistics |-> args.statistics,
                     img        |-> Opt(args.img, None),
                     img_dir    |-> Opt(args.img_dir, None)]]

(***************************************************************************)
(* load_image, load_images.                                                *)
(***************************************************************************)
Raise(e, ops) == [exc |-> e, images |-> <<>>, fs_ops |-> ops]

\* The OSError a path that names no readable node makes a system call raise.
Errno(node) ==
    IF node.kind = "missing" THEN "FileNotFoundError"
    ELSE IF node.kind = "notdir" THEN "NotADirectoryError"
    ELSE IF node.kind = "denied" \/ ~node.readable THEN "PermissionError"
    ELSE ""

\* os.listdir: None lists the working directory; a regular file raises
\* NotADirectoryError.
listdir(f, path) ==
    IF path = None
    THEN [exc |-> "", names |-> [i \in 1..(Len(f.cwd.entries) + Cardinality(f.saved)) |-> i]]
    ELSE LET node == Resolve(f, path) IN
         IF node.kind = "file" THEN [exc |-> "NotADirectoryError", names |-> <<>>]
         ELSE IF Errno(node) # "" THEN [exc |-> Errno(node), names |-> <<>>]
         ELSE [exc |-> "", names |-> [i \in 1..Len(node.entries) |-> i]]

\* os.path.isfile of a path that is not None: False when os.stat raises.
isfile(f, path) == Resolve(f, path).kind = "file"

\* open(img_path, "rb") raises TypeError for None, the path's OSError for a
\* path that cannot be opened (PermissionError for a directory of mode 000
\* too) and IsADirectoryError for a directory; otherwise f.read() as an
\* array of uint8.
load_image(f, img_path) ==
    IF img_path = None THEN [exc |-> "TypeError", img |-> <<>>]
    ELSE LET node == Resolve(f, img_path) IN
         IF Errno(node) # "" THEN [exc |-> Errno(node), img |-> <<>>]
         ELSE IF node.kind = "dir" THEN [exc |-> "IsADirectoryError", img |-> <<>>]
         ELSE [exc |-> "", img |-> [i \in 1..Len(node.data) |-> node.data[i] % 256]]

\* The generator expression evaluates os.listdir(dir_path) when it is created
\* (line 79), before os.path.isfile(dir_path) is asked (line 82).
load_images(f, dir_path, max_images) ==
    IF ~(max_images > 0 \/ max_images = -1) THEN Raise("AssertionError", <<>>)
    ELSE LET ls == listdir(f, dir_path) IN
         IF ls.exc # "" THEN Raise(ls.exc, <<"listdir">>)
         ELSE IF dir_path = None THEN Raise("TypeError", <<"listdir", "isfile">>)
         ELSE LET IsFilePath(p) == isfile(f, p)
                  joined == [i \in 1..Len(ls.names) |-> join(dir_path, ls.names[i])]
                  found == IF isfile(f, dir_path) THEN <<dir_path>>
                           ELSE SelectSeq(joined, IsFilePath)
                  img_paths == IF max_images > 0
                               THEN SubSeq(found, 1, Min(max_images, Len(found)))
                               ELSE found
                  loaded == [i \in 1..Len(img_paths) |-> load_image(f, img_paths[i])]
                  failed == {i \in 1..Len(img_paths) : loaded[i].exc # ""}
                  first == CHOOSE i \in failed : \A k \in failed : i <= k
                  probes == <<"listdir", "isfile">>
                            \o (IF isfile(f, dir_path) THEN <<>>
                                ELSE [i \in 1..Len(joined) |-> "isfile"])
              IN IF failed # {}
                 THEN Raise(loaded[first].exc, probes \o [i \in 1..first |-> "open"])
                 ELSE [exc |-> "",
                       images |-> [i \in 1..Len(img_paths) |-> loaded[i].img],
                       fs_ops |-> probes \o [i \in 1..Len(img_paths) |-> "open"]]

(***************************************************************************)
(* save_byte_image: Image.frombytes needs width * height * 3 bytes of RGB  *)
(* data and raises ValueError on fewer; im.save then writes                *)
(* result_img_<name_suffix>.jpg into the working directory, replacing a    *)
(* file of that name.  main() never calls it.                              *)
(***************************************************************************)
save_byte_image(f, bytes, size_wh, name_suffix) ==
    IF Len(bytes) < size_wh[1] * size_wh[2] * 3
    THEN [exc |-> "ValueError", fs |-> f]
    ELSE [exc |-> "", fs |-> [f EXCEPT !.saved = @ \cup {name_suffix}]]

(***************************************************************************)
(* array_from_list.                                                        *)
(***************************************************************************)
RECURSIVE max(_)
max(lengths) ==
    IF Len(lengths) = 1 THEN lengths[1]
    ELSE Max(lengths[1], max(Tail(lengths)))

pad_before(arr, n) == [i \in 1..n |-> 0] \o arr
\* np.pad(arr, (0, n)): n zeros after the content, none before.
pad(arr, n) == arr \o [i \in 1..n |-> 0]

array_from_list(arrays) ==
    IF arrays = <<>> THEN [exc |-> "ValueError", array |-> <<>>]
    ELSE LET lengths == [x \in 1..Len(arrays) |-> Len(arrays[x])]
             max_len == max(lengths)
             padded == [x \in 1..Len(arrays) |-> pad(arrays[x], max_len - Len(arrays[x]))]
         IN IF \E x \in 1..Len(padded) : Len(padded[x]) # Len(padded[1])
            THEN [exc |-> "AssertionError", array |-> <<>>]
            ELSE [exc |-> "", array |-> padded]

(***************************************************************************)
(* utils.batcher, whose source is not part of the client file: the lazy,   *)
(* finite sequence of batches, as row indices into the dataset.  Without   *)
(* an iteration count (n_iterations = -1) one pass over the data, the last *)
(* batch possibly shorter; with a count, that many full batches, the       *)
(* cursor wrapping around modulo the number of rows.                       *)
(***************************************************************************)
CeilDiv(n, b) == (n + b - 1) \div b

batcher(n_rows, batch_size, n_iterations) ==
    IF n_iterations = -1
    THEN [j \in 1..CeilDiv(n_rows, batch_size) |->
            [t \in 1..Min(batch_size, n_rows - (j - 1) * batch_size) |->
                (j - 1) * batch_size + t]]
    ELSE [j \in 1..n_iterations |->
            [t \in 1..batch_size |-> (((j - 1) * batch_size + t - 1) % n_rows) + 1]]

BatchesOnce(data, flags) == batcher(Len(data), flags.batch_size, -1)
\* main, line 158: the iterator over the stacked tensor.
BatchesOf(data, flags) == batcher(Len(data), flags.batch_size, flags.n_iter)

Rows(data, batch) == [t \in 1..Len(batch) |-> data[batch[t]]]

(***************************************************************************)
(* main(): one step per blocking call.                                     *)
(***************************************************************************)
max_images == 15
ChannelFailedExit == 0     \* sys.exit() without an argument
FailedExit == 1            \* sys.exit(1)
UncaughtExit == 1          \* a traceback

Event(op, model, n) == [op |-> op, model |-> model, n |-> n]
FsEvents(ops) == [i \in 1..Len(ops) |-> Event(ops[i], "", 0)]
Ops(evs, op) == {i \in 1..Len(evs) : evs[i].op = op}
Printed(line) == \E i \in 1..Len(out) : out[i] = line

\* No try/except surrounds the calls after the connection: an exception
\* ends the process with a traceback.
Crash(e) ==
    /\ exc' = e
    /\ exit_code' = Exited(UncaughtExit)
    /\ pc' = "exited"

\* Line 137.
ParseArgs ==
    /\ pc = "parse"
    /\ LET r == parse_args(argv) IN
       IF r.error
       THEN /\ out' = Append(out, "usage")
            /\ exit_code' = Exited(UsageError)
            /\ pc' = "exited"
            /\ UNCHANGED FLAGS
       ELSE /\ FLAGS' = r.flags
            /\ pc' = "connect"
            /\ UNCHANGED <<out, exit_code>>
    /\ UNCHANGED <<argv, fs, image_data, batches, events, exc, call, ret>>

\* Lines 138-140: the client is created.
Connect ==
    /\ pc = "connect"
    /\ events' = Append(events, Event("connect", "", 0))
    /\ pc' = "load"
    /\ UNCHANGED <<argv, fs, FLAGS, image_data, batches, out, exc, exit_code, call, ret>>

\* Lines 141-143: creating the client raised.
ConnectFails ==
    /\ pc = "connect"
    /\ out' = Append(out, "channel creation failed")
    /\ exit_code' = Exited(ChannelFailedExit)
    /\ pc' = "exited"
    /\ UNCHANGED <<argv, fs, FLAGS, image_data, batches, events, exc, call, ret>>

\* Lines 148-159: the images are loaded and stacked, the iterator is made.
LoadImages ==
    /\ pc = "load"
    /\ LET r == load_images(fs, IF FLAGS.img_dir # None THEN FLAGS.img_dir ELSE FLAGS.img,
                            max_images)
           a == array_from_list(r.images)
       IN /\ events' = events \o FsEvents(r.fs_ops)
          /\ IF r.exc # ""
             THEN /\ Crash(r.exc)
                  /\ out' = Append(out, "Loading images")
                  /\ UNCHANGED <<image_data, batches>>
             ELSE IF a.exc # ""
             THEN /\ Crash(a.exc)
                  /\ out' = Append(out, "Loading images")
                  /\ UNCHANGED <<image_data, batches>>
             ELSE /\ image_data' = a.array
                  /\ batches' = BatchesOf(a.array, FLAGS)
                  /\ out' = out \o <<"Loading images", "Images loaded">>
                  /\ pc' = "loop"
                  /\ UNCHANGED <<exc, exit_code>>
    /\ UNCHANGED <<argv, fs, FLAGS, call, ret>>

\* Lines 161-169: cv2 fails to decode a sample of the next batch.
PreprocessFails ==
    /\ pc = "loop"
    /\ batches # <<>>
    /\ FLAGS.preprocess
    /\ Crash("cv2.error")
    /\ UNCHANGED <<argv, fs, FLAGS, image_data, batches, events, out, call, ret>>

FireAndForget == "loop"
\* Lines 178-180: triton_client.infer is synchronous, main waits for it.
AwaitInfer == "infer_wait"

\* Line 145 and line 178: the model the batches are sent to.
model_name(flags) == flags.model_name

\* Lines 158-180: the next batch is taken and sent.
SendInfer ==
    /\ pc = "loop"
    /\ batches # <<>>
    /\ events' = Append(events, Event("infer", model_name(FLAGS),
                                      Cardinality(Ops(events, "infer")) + 1))
    /\ batches' = Tail(batches)
    /\ pc' = AwaitInfer
    /\ UNCHANGED <<argv, fs, FLAGS, image_data, out, exc, exit_code, call, ret>>

\* Lines 178-187: the response arrives; the samples are printed with --statistics.
InferReturns ==
    /\ pc = "infer_wait"
    /\ events' = Append(events, Event("infer_resp", "", Cardinality(Ops(events, "infer"))))
    /\ out' = IF FLAGS.statistics THEN Append(out, "Sample") ELSE out
    /\ pc' = "loop"
    /\ UNCHANGED <<argv, fs, FLAGS, image_data, batches, exc, exit_code, call, ret>>

\* Line 178: the call raises.
InferRaises ==
    /\ pc = "infer_wait"
    /\ events' = Append(events, Event("infer_err", "", Cardinality(Ops(events, "infer"))))
    /\ Crash("InferenceServerException")
    /\ UNCHANGED <<argv, fs, FLAGS, image_data, batches, out, call, ret>>

\* Line 189: the model whose statistics are asked for.
StatisticsModel(flags) == "dali"

\* Line 189: the iterator is exhausted, the statistics are requested.
GetStatistics ==
    /\ pc = "loop"
    /\ batches = <<>>
    /\ events' = Append(events, Event("stats", StatisticsModel(FLAGS), 0))
    /\ pc' = "stats_wait"
    /\ UNCHANGED <<argv, fs, FLAGS, image_data, batches, out, exc, exit_code, call, ret>>

StatisticsEmpty(n) == n = 0
\* Line 190.
StatisticsMismatch(n) == n # 1
AlwaysPrints(flags) == TRUE
\* Line 193.
PrintsStatistics(flags) == flags.statistics

\* Lines 189-198: the statistics arrive with n model entries.
StatisticsReturn ==
    /\ pc = "stats_wait"
    /\ \E n \in 0..MaxStats :
        /\ events' = Append(events, Event("stats_resp", "", n))
        /\ IF StatisticsMismatch(n)
           THEN /\ out' = Append(out, "FAILED: Inference Statistics")
                /\ exit_code' = Exited(FailedExit)
           ELSE /\ out' = out \o (IF PrintsStatistics(FLAGS) THEN <<"statistics">> ELSE <<>>)
                               \o (IF FLAGS.preprocess THEN <<"Latencies">> ELSE <<>>)
                               \o <<"PASS: infer">>
                /\ exit_code' = Exited(0)
    /\ pc' = "exited"
    /\ UNCHANGED <<argv, fs, FLAGS, image_data, batches, exc, call, ret>>

\* Line 189: the call raises.
StatisticsRaise ==
    /\ pc = "stats_wait"
    /\ events' = Append(events, Event("stats_err", "", 0))
    /\ Crash("InferenceServerException")
    /\ UNCHANGED <<argv, fs, FLAGS, image_data, batches, out, call, ret>>

Options(S) == {<<>>} \cup {<<v>> : v \in S}

MainFiles == {<<>>, <<255>>, <<255, 0>>}
MainEntries == {FileEntry(b, TRUE) : b \in MainFiles} \cup {FileEntry(<<255>>, FALSE), SubDirEntry}
MainNodes == {Missing, NotDir, LockedDir(<<FileEntry(<<255>>, TRUE)>>)} \cup {File(b, TRUE) : b \in MainFiles} \cup {File(<<255>>, FALSE)}
             \cup {Dir(e) : e \in SeqsUpTo(MainEntries, MainMaxEntries)}
MainCwd == Dir(<<FileEntry(<<255>>, TRUE)>>)

Argvs == [img : Options({TargetPath}), img_dir : Options({TargetPath}),
          batch_size : Options(1..MainMaxBatch), n_iter : Options(1..MainMaxIter),
          model_name : Options({"dali"}), preprocess : BOOLEAN, statistics : BOOLEAN]

NoCall == [fn |-> "none"]
NoRet == [done |-> FALSE, val |-> <<>>]
Returned(v) == [done |-> TRUE, val |-> v]

Init ==
    /\ pc = "parse"
    /\ argv \in Argvs
    /\ fs \in [target : MainNodes, cwd : {MainCwd}, saved : {{}}]
    /\ FLAGS = NoFlags
    /\ image_data = <<>>
    /\ batches = <<>>
    /\ events = <<>>
    /\ out = <<>>
    /\ exc = ""
    /\ exit_code = NotExited
    /\ call = NoCall
    /\ ret = NoRet

Next ==
    \/ ParseArgs
    \/ Connect
    \/ ConnectFails
    \/ LoadImages
    \/ PreprocessFails
    \/ SendInfer
    \/ InferReturns
    \/ InferRaises
    \/ GetStatistics
    \/ StatisticsReturn
    \/ StatisticsRaise

Spec == Init /\ [][Next]_vars

(***************************************************************************)
(* load_images, array_from_list and the batching iterator on their own.    *)
(***************************************************************************)
NoArgv == [img |-> <<>>, img_dir |-> <<TargetPath>>, batch_size |-> <<>>, n_iter |-> <<>>,
           model_name |-> <<>>, preprocess |-> FALSE, statistics |-> FALSE]

\* main() is not running.
Idle ==
    /\ pc = "idle"
    /\ events = <<>>
    /\ out = <<>>
    /\ exc = ""
    /\ exit_code = NotExited

Files == SeqsUpTo(Bytes, MaxFileLen)
Entries == {FileEntry(b, r) : b \in Files, r \in BOOLEAN} \cup {SubDirEntry}
Nodes == {Missing, NotDir, LockedDir(<<FileEntry(<<255>>, TRUE)>>)} \cup {File(b, r) : b \in Files, r \in BOOLEAN}
         \cup {Dir(e) : e \in SeqsUpTo(Entries, MaxEntries)}
Cwds == {Dir(<<>>), MainCwd}

InitLoad ==
    /\ Idle
    /\ argv = NoArgv
    /\ FLAGS = NoFlags
    /\ image_data = <<>>
    /\ batches = <<>>
    /\ fs \in [target : Nodes, cwd : Cwds, saved : {{}}]
    /\ call \in [fn : {"load_images"}, dir_path : {TargetPath, None},
                 max_images : {-1} \cup 1..MaxCap]
    /\ ret = NoRet

CallLoadImages ==
    /\ call.fn = "load_images"
    /\ ~ret.done
    /\ ret' = Returned(load_images(fs, call.dir_path, call.max_images))
    /\ UNCHANGED <<mainvars, call>>

NextLoad == CallLoadImages

SpecLoad == InitLoad /\ [][NextLoad]_vars

InitArr ==
    /\ Idle
    /\ argv = NoArgv
    /\ FLAGS = NoFlags
    /\ image_data = <<>>
    /\ batches = <<>>
    /\ fs = [target |-> Missing, cwd |-> MainCwd, saved |-> {}]
    /\ call \in [fn : {"array_from_list"},
                 arrays : SeqsUpTo(SeqsUpTo(Bytes, MaxLen), MaxRows)]
    /\ ret = NoRet

CallArrayFromList ==
    /\ call.fn = "array_from_list"
    /\ ~ret.done
    /\ ret' = Returned(array_from_list(call.arrays))
    /\ UNCHANGED <<mainvars, call>>

NextArr == CallArrayFromList

SpecArr == InitArr /\ [][NextArr]_vars

\* The raw RGB buffers and the image sizes save_byte_image is tried on.
Sizes == {<<w, h>> : w \in 1..MaxSide, h \in 1..MaxSide}
Pixels == UNION {[1..k -> {0}] : k \in 0..(3 * MaxSide * MaxSide + 1)}

InitSave ==
    /\ Idle
    /\ argv = NoArgv
    /\ FLAGS = NoFlags
    /\ image_data = <<>>
    /\ batches = <<>>
    /\ fs = [target |-> Missing, cwd |-> MainCwd, saved |-> {}]
    /\ call = [fn |-> "save_byte_image"]
    /\ ret = NoRet

\* Lines 120-125, called with any buffer, size and suffix.
CallSaveByteImage ==
    /\ call.fn = "save_byte_image"
    /\ \E bytes \in Pixels, size_wh \in Sizes, name_suffix \in 0..MaxSuffix :
         LET r == save_byte_image(fs, bytes, size_wh, name_suffix) IN
         /\ fs' = r.fs
         /\ ret' = Returned([exc |-> r.exc, len |-> Len(bytes), size_wh |-> size_wh,
                              name_suffix |-> name_suffix])
    /\ UNCHANGED <<pc, argv, FLAGS, image_data, batches, events, out, exc, exit_code, call>>

NextSave == CallSaveByteImage

SpecSave == InitSave /\ [][NextSave]_vars

\* The dataset of n images: row i is the one byte i, so that rows differ.
Dataset(n) == [i \in 1..n |-> <<i>>]

InitBatch ==
    /\ Idle
    /\ argv \in [img : {<<>>}, img_dir : {<<TargetPath>>},
                 batch_size : Options(1..MaxBatch), n_iter : Options(1..MaxIter),
                 model_name : {<<>>}, preprocess : {FALSE}, statistics : {FALSE}]
    /\ FLAGS = NoFlags
    /\ image_data \in {Dataset(n) : n \in 1..MaxImages}
    /\ batches = <<>>
    /\ fs = [target |-> Missing, cwd |-> MainCwd, saved |-> {}]
    /\ call = [fn |-> "batcher"]
    /\ ret = NoRet

\* Lines 137 and 158: the options are parsed and the iterator is made.
MakeBatches ==
    /\ call.fn = "batcher"
    /\ ~ret.done
    /\ FLAGS' = parse_args(argv).flags
    /\ batches' = BatchesOf(image_data, FLAGS')
    /\ ret' = Returned(<<>>)
    /\ UNCHANGED <<pc, argv, fs, image_data, events, out, exc, exit_code, call>>

\* Line 158: the for loop takes the next batch.
NextBatch ==
    /\ call.fn = "batcher"
    /\ ret.done
    /\ batches # <<>>
    /\ ret' = Returned(Append(ret.val, Rows(image_data, Head(batches))))
    /\ batches' = Tail(batches)
    /\ UNCHANGED <<pc, argv, fs, FLAGS, image_data, events, out, exc, exit_code, call>>

NextBatcher ==
    \/ MakeBatches
    \/ NextBatch

SpecBatch == InitBatch /\ [][NextBatcher]_vars

(***************************************************************************)
(* Properties.                                                             *)
(***************************************************************************)
RECURSIVE Flatten(_)
Flatten(ss) == IF ss = <<>> THEN <<>> ELSE Head(ss) \o Flatten(Tail(ss))

NoImageSource == ~Given(argv.img) /\ ~Given(argv.img_dir)
BothImageSources == Given(argv.img) /\ Given(argv.img_dir)
NetOpNames == {"infer", "infer_resp", "infer_err", "stats", "stats_resp", "stats_err"}
IsNetEvent(e) == e.op \in NetOpNames
Net == SelectSeq(events, IsNetEvent)
Pass == Printed("PASS: infer")
Failed == Printed("FAILED: Inference Statistics")

\* The bytes of the regular files of a directory listing, in listing order.
RECURSIVE FileData(_)
FileData(entries) ==
    IF entries = <<>> THEN <<>>
    ELSE (IF Head(entries).kind = "file" THEN <<Head(entries).data>> ELSE <<>>)
         \o FileData(Tail(entries))

\* The file or directory the path names, and every regular file in that
\* directory, can be read.
AllReadable ==
    /\ fs.target.readable
    /\ \A i \in 1..Len(fs.target.entries) :
         fs.target.entries[i].kind = "file" => fs.target.entries[i].readable

\* C1: for a path naming an existing regular file or directory (its regular
\* files readable), load_images (without a cap) returns without raising: the
\* file's bytes as the only buffer for a file, one buffer per regular file of
\* the listing, in order and without the subdirectories, for a directory.
C1_LoadImagesReturnsBuffers ==
    (/\ ret.done
     /\ call.fn = "load_images"
     /\ call.dir_path = TargetPath
     /\ call.max_images = -1
     /\ fs.target.kind \in {"file", "dir"}
     /\ AllReadable)
    => /\ ret.val.exc = ""
       /\ fs.target.kind = "file" => ret.val.images = <<fs.target.data>>
       /\ fs.target.kind = "dir" => ret.val.images = FileData(fs.target.entries)

\* C2: a run whose connection could not be established has exited with a
\* non-zero exit code, having read no file and sent no request.
C2_ConnectionFailureExitsNonZero ==
    Printed("channel creation failed")
    => /\ pc = "exited"
       /\ exit_code # Exited(0)
       /\ events = <<>>

\* C3: when the batching iterator is exhausted it has yielded, without an
\* iteration count, ceil(N / B) batches whose concatenation is the image
\* sequence, all of B images but possibly the last; and with an iteration
\* count K, exactly K batches of B consecutive images, wrapping around.
C3_BatcherYields ==
    (call.fn = "batcher" /\ ret.done /\ batches = <<>>)
    => LET N == Len(image_data)
           B == Opt(argv.batch_size, 1)
           Y == ret.val
       IN IF ~Given(argv.n_iter)
          THEN /\ (Len(Y) - 1) * B < N
               /\ N <= Len(Y) * B
               /\ Flatten(Y) = image_data
               /\ \A j \in 1..Len(Y) : Len(Y[j]) >= 1 /\ Len(Y[j]) <= B
               /\ \A j \in 1..(Len(Y) - 1) : Len(Y[j]) = B
          ELSE /\ Len(Y) = argv.n_iter[1]
               /\ \A j \in 1..Len(Y) :
                    /\ Len(Y[j]) = B
                    /\ \A t \in 1..B :
                         Y[j][t] = image_data[(((j - 1) * B + t - 1) % N) + 1]

C3_Witness ==
    /\ call.fn = "batcher"
    /\ ret.done
    /\ batches = <<>>
    /\ Given(argv.n_iter)
    /\ argv.n_iter[1] * Opt(argv.batch_size, 1) > Len(image_data)
    /\ Len(ret.val) >= 2

\* C4: with neither --img nor --img_dir the options resolve and the images
\* load: once loading has started it completes.
C4_NoImageSourceLoads ==
    NoImageSource
    => /\ ~Printed("usage")
       /\ Printed("Loading images") => Printed("Images loaded")

\* C5: the statistics are requested for the configured model name, the one
\* every inference request was sent to.
C5_StatisticsForInferredModel ==
    \A i \in Ops(events, "stats") :
        /\ events[i].model = FLAGS.model_name
        /\ \A j \in Ops(events, "infer") : events[j].model = events[i].model

\* What the stacked tensor must be: as many rows as buffers, each as long as
\* the longest buffer, the buffer's content first and zeros after it.
Longest(arrays) ==
    CHOOSE m \in {Len(arrays[i]) : i \in 1..Len(arrays)} :
        \A i \in 1..Len(arrays) : Len(arrays[i]) <= m

\* C6: array_from_list of a non-empty list of buffers returns one row per
\* buffer, in order, every row as long as the longest buffer, starting with
\* the buffer's content and zero after it.
C6_PaddedStack ==
    (call.fn = "array_from_list" /\ ret.done /\ call.arrays # <<>>)
    => /\ ret.val.exc = ""
       /\ Len(ret.val.array) = Len(call.arrays)
       /\ \A i \in 1..Len(call.arrays) :
            LET row == ret.val.array[i]
                buf == call.arrays[i]
            IN /\ Len(row) = Longest(call.arrays)
               /\ \A j \in 1..Len(buf) : row[j] = buf[j]
               /\ \A j \in (Len(buf) + 1)..Len(row) : row[j] = 0

C6_Witness ==
    /\ call.fn = "array_from_list"
    /\ ret.done
    /\ Len(call.arrays) >= 2
    /\ \E i, k \in 1..Len(call.arrays) :
        /\ Len(call.arrays[i]) < Len(call.arrays[k])
        /\ Len(call.arrays[i]) >= 1
        /\ call.arrays[i][1] # 0
        /\ ret.val.array[i][Len(call.arrays[k])] = 0

\* C7: a statistics response with a number of model entries other than 1
\* ends the run with the FAILED message and exit code 1 and without the PASS
\* banner; the banner is printed only after a response with exactly 1 entry.
C7_StatisticsCountDecides ==
    /\ \A i \in Ops(events, "stats_resp") :
         events[i].n # 1 => Failed /\ exit_code = Exited(1) /\ ~Pass /\ pc = "exited"
    /\ Pass => \E i \in Ops(events, "stats_resp") : events[i].n = 1

C7_Witness ==
    /\ pc = "exited"
    /\ Failed
    /\ \E i \in Ops(events, "stats_resp") : events[i].n > 1

\* C8: with both --img and --img_dir the run ends at the option parsing with
\* the usage error: no connection, no filesystem access, no request.
C8_ConflictFailsBeforeAnyAccess ==
    (BothImageSources /\ pc # "parse")
    => /\ pc = "exited"
       /\ Printed("usage")
       /\ exit_code = Exited(2)
       /\ events = <<>>

C8_Witness == BothImageSources /\ pc = "exited"

\* C9, as claimed: a statistics request is sent only with --statistics.
C9_StatisticsOnlyWithFlag ==
    Ops(events, "stats") # {} => FLAGS.statistics

\* C9, amended: only the printing of the snapshot depends on --statistics;
\* every run whose inference loop ends without an error requests the
\* statistics, with the flag or without, and prints the PASS banner only
\* after a statistics response.
C9_StatisticsAlwaysQueried ==
    /\ Printed("statistics") => FLAGS.statistics
    /\ (pc \in {"stats_wait", "exited"} /\ Printed("Images loaded") /\ exc = "")
       => Cardinality(Ops(events, "stats")) = 1
    /\ Pass => Ops(events, "stats_resp") # {}

C9_Witness ==
    /\ pc = "exited"
    /\ ~FLAGS.statistics
    /\ Pass
    /\ Ops(events, "stats") # {}

\* C10: the network calls are sequential.  The request for batch k + 1
\* follows the response for batch k; at most one request is outstanding; the
\* statistics are requested at most once, right after the response for the
\* last batch; and an error of an inference call is the run's last call,
\* with no PASS banner.
C10_SequentialCalls ==
    LET net == Net
        n_batches == Len(BatchesOf(image_data, FLAGS))
        sent == Cardinality(Ops(net, "infer")) + Cardinality(Ops(net, "stats"))
        answered == Cardinality(Ops(net, "infer_resp")) + Cardinality(Ops(net, "infer_err"))
                    + Cardinality(Ops(net, "stats_resp")) + Cardinality(Ops(net, "stats_err"))
    IN /\ sent - answered \in {0, 1}
       /\ Cardinality(Ops(net, "stats")) <= 1
       /\ \A i \in 1..Len(net) :
            /\ net[i].op = "infer"
               => /\ net[i].n = Cardinality({j \in 1..i : net[j].op = "infer"})
                  /\ i = 1 \/ (net[i - 1].op = "infer_resp" /\ net[i - 1].n = net[i].n - 1)
            /\ net[i].op = "stats"
               => /\ i > 1
                  /\ net[i - 1].op = "infer_resp"
                  /\ net[i - 1].n = n_batches
            /\ net[i].op = "infer_err"
               => /\ i = Len(net)
                  /\ pc = "exited"
                  /\ ~Pass

C10_Witness ==
    /\ pc = "exited"
    /\ \E i \in Ops(events, "infer_err") : events[i].n >= 2

====
